---- MODULE Spec2Model ----
(***************************************************************************)
(* Model of the read-only PostgreSQL gateway of                            *)
(* src/src/fuzzy_bassoon/server.py: the validation functions, the limit    *)
(* rewriting, the pooled execution under a deadline and the audit log,     *)
(* as the state machine of the call_tool handler.                          *)
(*                                                                         *)
(* A query text is a sequence of one-character strings, so that upper(),   *)
(* strip(), startswith(), the substring test and the regular expressions   *)
(* of the source are computed character by character.                      *)
(***************************************************************************)
EXTENDS Integers, Sequences, FiniteSets, TLC

\* ------------------------------------------------------------------------
\* Bounds of the model
\* ------------------------------------------------------------------------

\* Number of request slots that may be in flight at once (asyncio tasks).
NumReqs == 2

\* Number of body fragments that may follow the head of a query text.
MaxFrags == 2

\* Number of rows each table of the database holds.
DbRows == 3

\* ------------------------------------------------------------------------
\* Characters and strings (Python str methods used by the source)
\* ------------------------------------------------------------------------

LowerChars ==
    <<"a","b","c","d","e","f","g","h","i","j","k","l","m",
      "n","o","p","q","r","s","t","u","v","w","x","y","z">>

UpperChars ==
    <<"A","B","C","D","E","F","G","H","I","J","K","L","M",
      "N","O","P","Q","R","S","T","U","V","W","X","Y","Z">>

DigitChars == <<"0","1","2","3","4","5","6","7","8","9">>

\* str.upper() on one character
UpperMap ==
    [c \in {LowerChars[i] : i \in 1..26} |->
        UpperChars[CHOOSE i \in 1..26 : LowerChars[i] = c]]

\* str.lower() on one character
LowerMap ==
    [c \in {UpperChars[i] : i \in 1..26} |->
        LowerChars[CHOOSE i \in 1..26 : UpperChars[i] = c]]

IsLowerChar(c) == c \in DOMAIN UpperMap
IsUpperChar(c) == c \in DOMAIN LowerMap
IsDigitChar(c) == \E i \in 1..10 : DigitChars[i] = c

\* Python's str.strip() and the regular expression class \s
Whitespace == {" ", "\t", "\n"}

\* str.upper()
upper(s) ==
    SubSeq([i \in 1..Len(s) |-> IF IsLowerChar(s[i]) THEN UpperMap[s[i]] ELSE s[i]],
           1, Len(s))

\* str.lower()
lower(s) ==
    SubSeq([i \in 1..Len(s) |-> IF IsUpperChar(s[i]) THEN LowerMap[s[i]] ELSE s[i]],
           1, Len(s))

\* index of the last character of s[1..n] that is not in chars, 0 if none
RECURSIVE LastOutside(_, _, _)
LastOutside(s, chars, n) ==
    IF n = 0 \/ s[n] \notin chars THEN n ELSE LastOutside(s, chars, n - 1)

\* index of the first character of s[p..] that is not in chars, Len(s)+1 if none
RECURSIVE FirstOutside(_, _, _)
FirstOutside(s, chars, p) ==
    IF p > Len(s) \/ s[p] \notin chars THEN p ELSE FirstOutside(s, chars, p + 1)

\* str.rstrip(chars): every trailing character of the set is removed
rstrip(s, chars) == SubSeq(s, 1, LastOutside(s, chars, Len(s)))

\* str.lstrip(chars)
lstrip(s, chars) == SubSeq(s, FirstOutside(s, chars, 1), Len(s))

\* str.strip()
strip(s) == lstrip(rstrip(s, Whitespace), Whitespace)

\* str.startswith(prefix)
startswith(s, prefix) ==
    /\ Len(prefix) <= Len(s)
    /\ SubSeq(s, 1, Len(prefix)) = prefix

\* the substring test `sub in s`
contains(s, sub) ==
    \E i \in 1..(Len(s) - Len(sub) + 1) :
        /\ s[i] = sub[1]
        /\ SubSeq(s, i, i + Len(sub) - 1) = sub

\* f"{n}" for a non-negative integer
RECURSIVE IntToStr(_)
IntToStr(n) ==
    IF n < 10 THEN <<DigitChars[n + 1]>>
    ELSE IntToStr(n \div 10) \o <<DigitChars[(n % 10) + 1]>>


\* index of the first "." of s[p..], Len(s)+1 if none
RECURSIVE FirstDot(_, _)
FirstDot(s, p) == IF p > Len(s) \/ s[p] = "." THEN p ELSE FirstDot(s, p + 1)

\* index of the last "." of s[1..n], 0 if none
RECURSIVE LastDot(_, _)
LastDot(s, n) == IF n = 0 \/ s[n] = "." THEN n ELSE LastDot(s, n - 1)

\* str.split('.')[0]
split_first(s) == SubSeq(s, 1, FirstDot(s, 1) - 1)

\* str.split('.')[-1]
split_last(s) == SubSeq(s, LastDot(s, Len(s)) + 1, Len(s))

\* f"{schema}.{table}"
qualified(schema, table) == schema \o <<".">> \o table

\* ------------------------------------------------------------------------
\* SecurityConfig (read once from the environment, then never written)
\* ------------------------------------------------------------------------

\* MAX_ROWS_LIMIT, the row cap injected by the rewriting
MAX_ROWS_LIMIT == 2

\* asyncpg.create_pool(max_size=10)
max_size == 10

VARIABLES
    SecurityConfig,  \* [ALLOWED_TABLES, BLOCKED_SCHEMAS, ENABLE_AUDIT_LOG]
    db_pool,         \* the module global: 0 is None, else the id of a pool
    pools,           \* number of pools asyncpg.create_pool has created
    req,             \* per request slot: the call_tool coroutine's frame
    held,            \* per request slot: id of the pool whose connection it holds, 0 if none
    audit,           \* per request slot: the AuditEvents it has logged, in order
    sink_ok,         \* the handlers of logging.basicConfig can write their streams
    others,          \* [pool, n]: n connections of pool held by requests that have no slot
    stopped,         \* main has left app.run and has run cleanup
    closed           \* the ids of the pools that cleanup has closed

vars == <<SecurityConfig, db_pool, pools, req, held, audit, sink_ok, others, stopped, closed>>

\* ------------------------------------------------------------------------
\* validate_read_only_query
\* ------------------------------------------------------------------------

allowed_prefixes ==
    << <<"S","E","L","E","C","T">>,
       <<"S","H","O","W">>,
       <<"E","X","P","L","A","I","N">>,
       <<"D","E","S","C","R","I","B","E">>,
       <<"W","I","T","H">> >>

write_keywords_short ==
    << <<"I","N","S","E","R","T">>,
       <<"U","P","D","A","T","E">>,
       <<"D","E","L","E","T","E">>,
       <<"D","R","O","P">>,
       <<"T","R","U","N","C","A","T","E">>,
       <<"A","L","T","E","R">>,
       <<"C","R","E","A","T","E">>,
       <<"G","R","A","N","T">>,
       <<"R","E","V","O","K","E">> >>

write_keywords ==
    << <<"I","N","S","E","R","T">>,
       <<"U","P","D","A","T","E">>,
       <<"D","E","L","E","T","E">>,
       <<"D","R","O","P">>,
       <<"T","R","U","N","C","A","T","E">>,
       <<"A","L","T","E","R">>,
       <<"C","R","E","A","T","E">>,
       <<"G","R","A","N","T">>,
       <<"R","E","V","O","K","E">>,
       <<"R","E","P","L","A","C","E">>,
       <<"M","E","R","G","E">> >>

\* the variant that tests for the prefix anywhere in the text
has_allowed_prefix_anywhere(upper_query) ==
    \E i \in 1..Len(allowed_prefixes) : contains(upper_query, allowed_prefixes[i])

\* any(upper_query.startswith(prefix) for prefix in allowed_prefixes)
has_allowed_prefix(upper_query) ==
    \E i \in 1..Len(allowed_prefixes) : startswith(upper_query, allowed_prefixes[i])

\* Returns the pair (is_valid, message); the message is kept as its kind and,
\* for a write keyword, the keyword it names.
validate_read_only_query(query) ==
    LET upper_query == strip(upper(query))
        hits == {i \in 1..Len(write_keywords) : contains(upper_query, write_keywords[i])}
    IN  IF ~has_allowed_prefix(upper_query)
        THEN [ok |-> FALSE, kind |-> "not_read_kind", name |-> <<>>]
        ELSE IF hits # {}
        THEN [ok |-> FALSE, kind |-> "write_keyword",
              name |-> write_keywords[CHOOSE i \in hits : \A j \in hits : i <= j]]
        ELSE [ok |-> TRUE, kind |-> "validated", name |-> <<>>]

\* ------------------------------------------------------------------------
\* extract_tables_from_query
\* ------------------------------------------------------------------------

\* [a-zA-Z_]
IsIdentStart(c) == IsLowerChar(c) \/ IsUpperChar(c) \/ c = "_"

\* [a-zA-Z0-9_]
IsIdentChar(c) == IsIdentStart(c) \/ IsDigitChar(c)

\* index of the last character of the longest [a-zA-Z0-9_]* run starting at p
RECURSIVE IdentEnd(_, _)
IdentEnd(s, p) ==
    IF p + 1 > Len(s) \/ ~IsIdentChar(s[p + 1]) THEN p ELSE IdentEnd(s, p + 1)

\* \s+ from p: index of the first character at or after p that is not whitespace
SkipSpace(s, p) == FirstOutside(s, Whitespace, p)

\* One match of  KW\s+([a-zA-Z_][a-zA-Z0-9_]*\.)?([a-zA-Z_][a-zA-Z0-9_]*)
\* attempted at position p: [found, schema, table, last].
match_at(s, kw, p) ==
    LET a  == p + Len(kw)
        q  == SkipSpace(s, a)
        no == [found |-> FALSE, schema |-> <<>>, table |-> <<>>, last |-> 0]
    IN  IF ~(/\ p + Len(kw) - 1 <= Len(s)
             /\ s[p] = kw[1]
             /\ SubSeq(s, p, p + Len(kw) - 1) = kw) THEN no
        ELSE IF ~(q > a /\ q <= Len(s) /\ IsIdentStart(s[q])) THEN no
        ELSE LET e1 == IdentEnd(s, q)
             IN  IF e1 + 2 <= Len(s) /\ s[e1 + 1] = "." /\ IsIdentStart(s[e1 + 2])
                 THEN [found |-> TRUE, schema |-> SubSeq(s, q, e1),
                       table |-> SubSeq(s, e1 + 2, IdentEnd(s, e1 + 2)),
                       last |-> IdentEnd(s, e1 + 2)]
                 ELSE [found |-> TRUE, schema |-> <<"p","u","b","l","i","c">>,
                       table |-> SubSeq(s, q, e1), last |-> e1]

\* re.finditer: the matches from left to right, none overlapping another
RECURSIVE finditer(_, _, _)
finditer(s, kw, pos) ==
    IF pos + Len(kw) > Len(s) THEN {}
    ELSE LET m == match_at(s, kw, pos)
         IN  IF m.found
             THEN {lower(qualified(m.schema, m.table))} \cup finditer(s, kw, m.last + 1)
             ELSE finditer(s, kw, pos + 1)

extract_tables_from_query(query) ==
    LET upper_query == upper(query)
    IN  finditer(upper_query, <<"F","R","O","M">>, 1)
            \cup finditer(upper_query, <<"J","O","I","N">>, 1)

\* ------------------------------------------------------------------------
\* validate_table_access
\* ------------------------------------------------------------------------

Allowed == [ok |-> TRUE, kind |-> "validated", name |-> <<>>]
DenySchema(schema) == [ok |-> FALSE, kind |-> "schema", name |-> schema]
DenyTable(table) == [ok |-> FALSE, kind |-> "table", name |-> table]

\* The variant that applies both rules to one reference before the next one.
access_decisions_per_reference(referenced_tables) ==
    LET bad == {t \in referenced_tables :
                   \/ split_first(t) \in SecurityConfig.BLOCKED_SCHEMAS
                   \/ /\ SecurityConfig.ALLOWED_TABLES # {}
                      /\ t \notin SecurityConfig.ALLOWED_TABLES
                      /\ split_last(t) \notin SecurityConfig.ALLOWED_TABLES}
    IN  IF bad = {} THEN {Allowed}
        ELSE {IF split_first(t) \in SecurityConfig.BLOCKED_SCHEMAS
              THEN DenySchema(split_first(t)) ELSE DenyTable(t) : t \in bad}

\* The variant that looks up only the "schema.table" form in the allowlist.
access_decisions_full_name_only(referenced_tables) ==
    LET blocked == {split_first(t) : t \in referenced_tables}
                       \cap SecurityConfig.BLOCKED_SCHEMAS
        refused == {t \in referenced_tables : t \notin SecurityConfig.ALLOWED_TABLES}
    IN  IF blocked # {} THEN {DenySchema(s) : s \in blocked}
        ELSE IF SecurityConfig.ALLOWED_TABLES # {} /\ refused # {}
        THEN {DenyTable(t) : t \in refused}
        ELSE {Allowed}

\* The two loops over the set of references.  A Python set of strings is
\* iterated in an order that differs from run to run, so the result is the
\* set of pairs (is_valid, message) the loops can return.
access_decisions(referenced_tables) ==
    LET blocked == {split_first(t) : t \in referenced_tables}
                       \cap SecurityConfig.BLOCKED_SCHEMAS
        refused == {t \in referenced_tables :
                       /\ t \notin SecurityConfig.ALLOWED_TABLES
                       /\ split_last(t) \notin SecurityConfig.ALLOWED_TABLES}
    IN  IF blocked # {} THEN {DenySchema(s) : s \in blocked}
        ELSE IF SecurityConfig.ALLOWED_TABLES # {} /\ refused # {}
        THEN {DenyTable(t) : t \in refused}
        ELSE {Allowed}

validate_table_access(query) == access_decisions(extract_tables_from_query(query))


\* ------------------------------------------------------------------------
\* The LIMIT rewriting of call_tool
\* ------------------------------------------------------------------------

\* the variant that appends the clause without looking at the text
add_limit_always(query) ==
    rstrip(query, {";"}) \o <<" ","L","I","M","I","T"," ">> \o IntToStr(MAX_ROWS_LIMIT)

\* the variant that appends the clause without stripping the semicolons
add_limit_keep_semicolon(query) ==
    LET upper_query == strip(upper(query))
    IN  IF ~contains(upper_query, <<"L","I","M","I","T">>)
        THEN query \o <<" ","L","I","M","I","T"," ">> \o IntToStr(MAX_ROWS_LIMIT)
        ELSE query

\* if 'LIMIT' not in upper_query: query = f"{query.rstrip(';')} LIMIT {MAX_ROWS_LIMIT}"
add_limit(query) ==
    LET upper_query == strip(upper(query))
    IN  IF ~contains(upper_query, <<"L","I","M","I","T">>)
        THEN rstrip(query, {";"}) \o <<" ","L","I","M","I","T"," ">> \o IntToStr(MAX_ROWS_LIMIT)
        ELSE query

\* ------------------------------------------------------------------------
\* The database behind conn.fetch
\* ------------------------------------------------------------------------

RECURSIVE StrToInt(_)
StrToInt(digits) ==
    IF Len(digits) = 0 THEN 0
    ELSE 10 * StrToInt(SubSeq(digits, 1, Len(digits) - 1))
         + (CHOOSE i \in 0..9 : DigitChars[i + 1] = digits[Len(digits)])

\* The row bound of the statement's own (outermost, trailing) LIMIT clause:
\* the text ends, up to whitespace and semicolons, with the word LIMIT,
\* whitespace and a number.  -1 when the statement has no such clause.
OuterLimit(text) ==
    LET u      == rstrip(upper(text), Whitespace \cup {";"})
        cut    == LastOutside(u, {DigitChars[i] : i \in 1..10}, Len(u))
        w      == rstrip(SubSeq(u, 1, cut), Whitespace)
        n      == Len(w)
    IN  IF /\ cut < Len(u)
           /\ n < cut
           /\ n >= 5
           /\ SubSeq(w, n - 4, n) = <<"L","I","M","I","T">>
           /\ (n = 5 \/ ~IsIdentChar(w[n - 5]))
        THEN StrToInt(SubSeq(u, cut + 1, Len(u)))
        ELSE -1

Min(a, b) == IF a <= b THEN a ELSE b

\* The number of rows conn.fetch(query) returns when it completes: a
\* statement reading a table yields the table's DbRows rows, one without a
\* table one row, and the statement's own LIMIT clause bounds either.
ResultSize(text) ==
    LET source == IF extract_tables_from_query(text) = {} THEN 1 ELSE DbRows
        limit  == OuterLimit(text)
    IN  IF limit < 0 THEN source ELSE Min(source, limit)

\* pg_tables: the (schemaname, tablename) pairs of the database
DbTables ==
    { <<<<"p","u","b","l","i","c">>, <<"o","r","d","e","r","s">>>>,
      <<<<"p","u","b","l","i","c">>, <<"c","u","s","t","o","m","e","r","s">>>>,
      <<<<"a","p","p">>, <<"u","s","e","r","s">>>>,
      <<<<"p","g","_","c","a","t","a","l","o","g">>, <<"p","g","_","t","a","b","l","e","s">>>> }


\* ------------------------------------------------------------------------
\* The state of one call_tool invocation and its results
\* ------------------------------------------------------------------------

Reqs == 1..NumReqs

\* no request outside the slots holds a connection
NoOthers == [pool |-> 0, n |-> 0]

\* an argument the caller left out of `arguments`
Absent == <<"absent">>

NoArguments == [query |-> Absent, table_name |-> Absent, schema_name |-> Absent]

NoResponse == [kind |-> "none", rowCount |-> -1, data |-> {}, reason |-> Allowed]

\* The frame of the coroutine: where it is suspended (pc), its locals
\* (name, arguments, query, pool), what the database call came to (db), the
\* value or exception it carries while __aexit__ releases the connection
\* (pending), the TextContent it returned (response), and the pipeline
\* steps it has run, in order (steps).
IdleFrame ==
    [pc |-> "idle", name |-> "none", arguments |-> NoArguments, query |-> Absent,
     pool |-> 0, db |-> "none", pending |-> NoResponse, response |-> NoResponse,
     steps |-> <<>>]

\* [TextContent(type="text", text=...)], by the text's form
Response(kind, rowCount, data, reason) ==
    [kind |-> kind, rowCount |-> rowCount, data |-> data, reason |-> reason]

\* an exception on its way to the handler's `except Exception as e`
Raised(cause) == Response("exception", -1, {}, [ok |-> FALSE, kind |-> cause, name |-> <<>>])

\* audit_log, as the log of the calling request after the call.  The entry
\* goes to logger.info or logger.warning; a handler whose stream cannot be
\* written drops the record (Handler.handleError) and the call returns.
audit_log(log, event_type, success, error, rows_returned) ==
    IF ~SecurityConfig.ENABLE_AUDIT_LOG THEN log
    ELSE Append(log, [event_type |-> event_type, success |-> success,
                      error |-> error, rows_returned |-> rows_returned,
                      written |-> sink_ok])

\* `return [TextContent(...)]` outside the `async with`: the coroutine ends.
Return(r, f, log, response) ==
    /\ req' = [req EXCEPT ![r] = [f EXCEPT !.pc = "done", !.response = response]]
    /\ audit' = [audit EXCEPT ![r] = log]

\* the variant of the except clause that answers without logging
ExceptUnlogged(r, f, cause) ==
    Return(r, f, audit[r],
           Response("error", -1, {}, [ok |-> FALSE, kind |-> cause, name |-> <<>>]))

\* the variant of the except clause that answers without str(e)
ExceptGeneric(r, f, cause) ==
    Return(r, f,
           audit_log(audit[r], "ERROR", FALSE, [ok |-> FALSE, kind |-> "unspecified", name |-> <<>>], 0),
           Response("error", -1, {}, [ok |-> FALSE, kind |-> "unspecified", name |-> <<>>]))

\* the variant without the except clause: the exception leaves call_tool
ExceptEscapes(r, f, cause) ==
    /\ req' = [req EXCEPT ![r] = [f EXCEPT !.pc = "raised", !.pending = Raised(cause)]]
    /\ audit' = audit

\* the handler's `except Exception as e` clause
Except(r, f, cause) ==
    Return(r, f,
           audit_log(audit[r], "ERROR", FALSE, [ok |-> FALSE, kind |-> cause, name |-> <<>>], 0),
           Response("error", -1, {}, [ok |-> FALSE, kind |-> cause, name |-> <<>>]))

\* `async with pool.acquire() as conn:` is reached: the coroutine suspends.
Suspend(r, f, pc) ==
    /\ req' = [req EXCEPT ![r] = [f EXCEPT !.pc = pc]]
    /\ audit' = audit


\* ------------------------------------------------------------------------
\* call_tool: the branches, each from its first line to its first await
\* ------------------------------------------------------------------------

Step(name, ok) == [step |-> name, ok |-> ok]

\* name == "query_database", up to `async with pool.acquire()`
QueryDatabase(r, f) ==
    LET query == f.arguments.query
        v     == validate_read_only_query(query)
    IN  IF ~v.ok
        THEN Return(r, [f EXCEPT !.steps = <<Step("classify", FALSE)>>],
                    audit_log(audit[r], "QUERY_BLOCKED", FALSE, v, 0),
                    Response("validation_failed", -1, {}, v))
        ELSE \E d \in validate_table_access(query) :
                IF ~d.ok
                THEN Return(r, [f EXCEPT !.steps = <<Step("classify", TRUE),
                                                    Step("access", FALSE)>>],
                            audit_log(audit[r], "ACCESS_DENIED", FALSE, d, 0),
                            Response("access_denied", -1, {}, d))
                ELSE Suspend(r, [f EXCEPT !.query = add_limit(query),
                                          !.steps = <<Step("classify", TRUE),
                                                      Step("access", TRUE),
                                                      Step("rewrite", TRUE)>>],
                             "acquire")

\* arguments.get("schema_name", "public")
schema_name_or_public(f) ==
    IF f.arguments.schema_name = Absent THEN <<"p","u","b","l","i","c">> ELSE f.arguments.schema_name

\* name == "get_table_schema", up to `async with pool.acquire()`
GetTableSchema(r, f) ==
    LET table_name  == f.arguments.table_name
        schema_name == schema_name_or_public(f)
        full_table  == qualified(schema_name, table_name)
    IN  IF schema_name \in SecurityConfig.BLOCKED_SCHEMAS
        THEN Return(r, f,
                    audit_log(audit[r], "ACCESS_DENIED", FALSE, DenySchema(schema_name), 0),
                    Response("access_denied", -1, {}, DenySchema(schema_name)))
        ELSE IF /\ SecurityConfig.ALLOWED_TABLES # {}
                /\ full_table \notin SecurityConfig.ALLOWED_TABLES
                /\ table_name \notin SecurityConfig.ALLOWED_TABLES
        THEN Return(r, f,
                    audit_log(audit[r], "ACCESS_DENIED", FALSE, DenyTable(full_table), 0),
                    Response("access_denied", -1, {}, DenyTable(full_table)))
        ELSE Suspend(r, f, "acquire")

\* name == "list_tables", up to `async with pool.acquire()`
ListTables(r, f) ==
    LET schema_name == f.arguments.schema_name
    IN  IF schema_name # Absent /\ schema_name \in SecurityConfig.BLOCKED_SCHEMAS
        THEN Return(r, f, audit[r],
                    Response("access_denied", -1, {}, DenySchema(schema_name)))
        ELSE Suspend(r, f, "acquire")

\* name == "get_security_config"
GetSecurityConfig(r, f) ==
    Return(r, f, audit[r], Response("config", -1, {}, Allowed))

\* the final else: "Unknown tool"
UnknownTool(r, f) ==
    Return(r, f, audit[r], Response("unknown_tool", -1, {}, Allowed))

\* The body of the try block once `pool = await get_db_pool()` has returned.
Dispatch(r, f) ==
    CASE f.name = "query_database"      -> QueryDatabase(r, f)
      [] f.name = "get_table_schema"    -> GetTableSchema(r, f)
      [] f.name = "list_tables"         -> ListTables(r, f)
      [] f.name = "get_security_config" -> GetSecurityConfig(r, f)
      [] OTHER                          -> UnknownTool(r, f)

\* ------------------------------------------------------------------------
\* Actions: the steps between two suspensions of a call_tool coroutine
\* ------------------------------------------------------------------------

\* call_tool is invoked (app.run is serving).  get_db_pool returns at once
\* when db_pool is set, and otherwise suspends in asyncpg.create_pool.
CallTool(r, calls) ==
    /\ ~stopped
    /\ req[r].pc = "idle"
    /\ \E c \in calls :
          LET f == [IdleFrame EXCEPT !.name = c.name, !.arguments = c.arguments,
                                     !.query = c.arguments.query, !.pool = db_pool]
          IN  IF db_pool = 0 THEN Suspend(r, f, "create_pool") ELSE Dispatch(r, f)
    /\ UNCHANGED <<SecurityConfig, sink_ok, others, stopped, closed, db_pool, pools, held>>

\* asyncpg.create_pool returns: db_pool is assigned and returned.
CreatePoolDone(r) ==
    /\ req[r].pc = "create_pool"
    /\ pools' = pools + 1
    /\ db_pool' = pools + 1
    /\ Dispatch(r, [req[r] EXCEPT !.pool = pools + 1])
    /\ UNCHANGED <<SecurityConfig, sink_ok, others, stopped, closed, held>>

\* asyncpg.create_pool raises (the server cannot be reached).
CreatePoolFail(r) ==
    /\ req[r].pc = "create_pool"
    /\ Except(r, req[r], "create_pool_failed")
    /\ UNCHANGED <<SecurityConfig, sink_ok, others, stopped, closed, db_pool, pools, held>>

\* connections of pool p that requests hold
InUse(p) == {s \in Reqs : held[s] = p}

\* the number of connections of pool p that are acquired
Acquired(p) == Cardinality(InUse(p)) + (IF others.pool = p THEN others.n ELSE 0)

\* pool.acquire() hands out a connection of the request's pool.  No timeout
\* is passed, so with max_size connections acquired the call waits.
Acquire(r) ==
    /\ req[r].pc = "acquire"
    /\ Acquired(req[r].pool) < max_size
    /\ held' = [held EXCEPT ![r] = req[r].pool]
    /\ Suspend(r, req[r], "fetch")
    /\ UNCHANGED <<SecurityConfig, sink_ok, others, stopped, closed, db_pool, pools>>

\* pool.acquire() raises (a new connection cannot be established); the
\* pool connects only once it has a free holder for the request.
AcquireFail(r) ==
    /\ req[r].pc = "acquire"
    /\ Acquired(req[r].pool) < max_size
    /\ Except(r, req[r], "acquire_failed")
    /\ UNCHANGED <<SecurityConfig, sink_ok, others, stopped, closed, db_pool, pools, held>>

\* `return` inside the `async with`: the value waits for __aexit__.
Leave(r, f, log, db, pending) ==
    /\ req' = [req EXCEPT ![r] = [f EXCEPT !.pc = "release", !.db = db,
                                           !.pending = pending]]
    /\ audit' = [audit EXCEPT ![r] = log]

\* the variant in which a record that cannot be written raises in audit_log
FetchQueryAuditRaises(r) ==
    /\ req[r].pc = "fetch"
    /\ req[r].name = "query_database"
    /\ LET row_count == ResultSize(req[r].query)
       IN  Leave(r, req[r],
                 audit_log(audit[r], "QUERY_SUCCESS", TRUE, Allowed, row_count),
                 "completed",
                 IF sink_ok \/ ~SecurityConfig.ENABLE_AUDIT_LOG
                 THEN Response("result", row_count, {}, Allowed)
                 ELSE Raised("log_write_failed"))
    /\ UNCHANGED <<SecurityConfig, sink_ok, others, stopped, closed, db_pool, pools, held>>

\* query_database: conn.fetch returns its rows before the deadline.
FetchQuery(r) ==
    /\ req[r].pc = "fetch"
    /\ req[r].name = "query_database"
    /\ LET row_count == ResultSize(req[r].query)
       IN  Leave(r, req[r],
                 audit_log(audit[r], "QUERY_SUCCESS", TRUE, Allowed, row_count),
                 "completed", Response("result", row_count, {}, Allowed))
    /\ UNCHANGED <<SecurityConfig, sink_ok, others, stopped, closed, db_pool, pools, held>>

\* the variant of the timeout branch that answers with the rows read so far
FetchTimeoutPartial(r) ==
    /\ req[r].pc = "fetch"
    /\ req[r].name = "query_database"
    /\ \E row_count \in 0..ResultSize(req[r].query) :
          Leave(r, req[r],
                audit_log(audit[r], "QUERY_TIMEOUT", FALSE,
                          [ok |-> FALSE, kind |-> "timeout", name |-> <<>>], 0),
                "deadline", Response("result", row_count, {}, Allowed))
    /\ UNCHANGED <<SecurityConfig, sink_ok, others, stopped, closed, db_pool, pools, held>>

\* query_database: asyncio.wait_for raises asyncio.TimeoutError.
FetchTimeout(r) ==
    /\ req[r].pc = "fetch"
    /\ req[r].name = "query_database"
    /\ Leave(r, req[r],
             audit_log(audit[r], "QUERY_TIMEOUT", FALSE,
                       [ok |-> FALSE, kind |-> "timeout", name |-> <<>>], 0),
             "deadline",
             Response("timeout", -1, {}, [ok |-> FALSE, kind |-> "timeout", name |-> <<>>]))
    /\ UNCHANGED <<SecurityConfig, sink_ok, others, stopped, closed, db_pool, pools, held>>

\* get_table_schema: the rows of information_schema.columns for the table
FetchSchema(r) ==
    /\ req[r].pc = "fetch"
    /\ req[r].name = "get_table_schema"
    /\ LET found == {t \in DbTables : t = <<schema_name_or_public(req[r]),
                                           req[r].arguments.table_name>>}
       IN  Leave(r, req[r],
                 audit_log(audit[r], "SCHEMA_QUERY", TRUE, Allowed, 0),
                 "completed", Response("schema_info", Cardinality(found), found, Allowed))
    /\ UNCHANGED <<SecurityConfig, sink_ok, others, stopped, closed, db_pool, pools, held>>

\* list_tables: the rows of pg_tables, then the allowlist filter.  With no
\* schema_name and no blocked schema the statement reads NOT IN () and the
\* server refuses it, so conn.fetch can only raise.
FetchTables(r) ==
    /\ req[r].pc = "fetch"
    /\ req[r].name = "list_tables"
    /\ LET schema_name == req[r].arguments.schema_name
           all_tables  == IF schema_name # Absent
                          THEN {t \in DbTables : t[1] = schema_name}
                          ELSE {t \in DbTables : t[1] \notin SecurityConfig.BLOCKED_SCHEMAS}
           filtered    == IF SecurityConfig.ALLOWED_TABLES # {}
                          THEN {t \in all_tables :
                                   \/ qualified(t[1], t[2]) \in SecurityConfig.ALLOWED_TABLES
                                   \/ t[2] \in SecurityConfig.ALLOWED_TABLES}
                          ELSE all_tables
       IN  /\ schema_name # Absent \/ SecurityConfig.BLOCKED_SCHEMAS # {}
           /\ Leave(r, req[r],
                    audit_log(audit[r], "LIST_TABLES", TRUE, Allowed, Cardinality(filtered)),
                    "completed",
                    Response("tables", Cardinality(filtered), filtered, Allowed))
    /\ UNCHANGED <<SecurityConfig, sink_ok, others, stopped, closed, db_pool, pools, held>>

\* conn.fetch raises: a driver error in any branch, or the pool's
\* command_timeout in the branches that have no asyncio.wait_for.
FetchError(r) ==
    /\ req[r].pc = "fetch"
    /\ Leave(r, req[r], audit[r], "failed", Raised("driver_error"))
    /\ UNCHANGED <<SecurityConfig, sink_ok, others, stopped, closed, db_pool, pools, held>>

\* the variant of __aexit__ that does not give the connection back when an
\* exception passes through it
ReleaseUnlessRaised(r) ==
    /\ req[r].pc = "release"
    /\ held' = [held EXCEPT ![r] = IF req[r].pending.kind = "exception" THEN @ ELSE 0]
    /\ IF req[r].pending.kind = "exception"
       THEN Except(r, req[r], req[r].pending.reason.kind)
       ELSE Return(r, req[r], audit[r], req[r].pending)
    /\ UNCHANGED <<SecurityConfig, sink_ok, others, stopped, closed, db_pool, pools>>

\* __aexit__ of `async with pool.acquire()`: the connection goes back to the
\* pool, then the value is returned or the exception reaches the handler.
Release(r) ==
    /\ req[r].pc = "release"
    /\ held' = [held EXCEPT ![r] = 0]
    /\ IF req[r].pending.kind = "exception"
       THEN Except(r, req[r], req[r].pending.reason.kind)
       ELSE Return(r, req[r], audit[r], req[r].pending)
    /\ UNCHANGED <<SecurityConfig, sink_ok, others, stopped, closed, db_pool, pools>>

\* The caller has taken the response; the slot serves the next request.
Retire(r) ==
    /\ req[r].pc = "done"
    /\ req' = [req EXCEPT ![r] = IdleFrame]
    /\ audit' = [audit EXCEPT ![r] = <<>>]
    /\ UNCHANGED <<SecurityConfig, sink_ok, others, stopped, closed, db_pool, pools, held>>


\* A call_tool invocation that has no slot acquires a connection of the pool
\* get_db_pool gave it.
OtherAcquire ==
    /\ db_pool # 0
    /\ others.n = 0 \/ others.pool = db_pool
    /\ Acquired(db_pool) < max_size
    /\ others' = [pool |-> db_pool, n |-> others.n + 1]
    /\ UNCHANGED <<SecurityConfig, db_pool, pools, req, held, audit, sink_ok, stopped, closed>>

\* One of them leaves its `async with` block.
OtherRelease ==
    /\ others.n > 0
    /\ others' = IF others.n = 1 THEN NoOthers ELSE [others EXCEPT !.n = @ - 1]
    /\ UNCHANGED <<SecurityConfig, db_pool, pools, req, held, audit, sink_ok, stopped, closed>>

\* cleanup, in the `finally` of main: app.run has returned, so no call_tool
\* is in flight; db_pool, if set, is closed.
cleanup ==
    /\ ~stopped
    /\ \A r \in Reqs : req[r].pc \in {"idle", "done"}
    /\ others.n = 0
    /\ stopped' = TRUE
    /\ closed' = IF db_pool # 0 THEN closed \cup {db_pool} ELSE closed
    /\ UNCHANGED <<SecurityConfig, db_pool, pools, req, held, audit, sink_ok, others>>

\* The streams of the logging handlers stop accepting writes (the disk of
\* postgres_mcp_audit.log is full, stderr is closed).
SinkFails ==
    /\ sink_ok
    /\ sink_ok' = FALSE
    /\ UNCHANGED <<SecurityConfig, db_pool, pools, req, held, audit, others, stopped, closed>>

\* The streams accept writes again.
SinkRecovers ==
    /\ ~sink_ok
    /\ sink_ok' = TRUE
    /\ UNCHANGED <<SecurityConfig, db_pool, pools, req, held, audit, others, stopped, closed>>


\* ------------------------------------------------------------------------
\* Inputs: query texts, tool arguments and configurations
\* ------------------------------------------------------------------------

\* how a query text may begin: the read words in several spellings, a
\* write statement, a read word that is not at the start
PlainHeads ==
    { <<"S","E","L","E","C","T"," ","a">>,
      <<" ","s","e","l","e","c","t"," ","a">>,
      <<"W","I","T","H"," ","a">>,
      <<"S","H","O","W"," ","a">>,
      <<"E","X","P","L","A","I","N"," ","a">>,
      <<"D","E","S","C","R","I","B","E"," ","a">>,
      <<"D","E","L","E","T","E">>,
      <<"(","S","E","L","E","C","T"," ","a">> }

\* a read statement whose first column has a write word inside its name
WordHeads ==
    { <<"S","E","L","E","C","T"," ","i","n","s","e","r","t","e","d">>,
      <<"S","E","L","E","C","T"," ","d","e","l","e","t","e","d">>,
      <<"S","E","L","E","C","T"," ","d","r","o","p","p","e","d">>,
      <<"S","E","L","E","C","T"," ","t","r","u","n","c","a","t","e","d">>,
      <<"S","E","L","E","C","T"," ","a","l","t","e","r","n","a","t","e">>,
      <<"S","E","L","E","C","T"," ","c","r","e","a","t","e","d","_","a","t">>,
      <<"S","E","L","E","C","T"," ","g","r","a","n","t","e","d">>,
      <<"S","E","L","E","C","T"," ","r","e","v","o","k","e","d">>,
      <<"S","E","L","E","C","T"," ","r","e","p","l","a","c","e","d">>,
      <<"S","E","L","E","C","T"," ","m","e","r","g","e","d">> }

\* what may follow, in any order
Bodies ==
    { <<" ","F","R","O","M"," ","o","r","d","e","r","s">>,
      <<" ","f","r","o","m"," ","A","p","p",".","U","s","e","r","s">>,
      <<" ","J","O","I","N"," ","p","g","_","c","a","t","a","l","o","g",".","p","g","_","t","a","b","l","e","s">>,
      <<" ","L","I","M","I","T"," ","3">>,
      <<","," ","l","i","m","i","t","s">>,
      <<","," ","u","p","d","a","t","e","d","_","a","t">>,
      <<";">>,
      <<" ">> }

\* the concatenations of at most n bodies
RECURSIVE Tails(_)
Tails(n) ==
    IF n = 0 THEN {<<>>}
    ELSE LET shorter == Tails(n - 1)
         IN  shorter \cup {t \o b : t \in shorter, b \in Bodies}

\* a head and at most MaxFrags fragments after it; the column with the write
\* word counts as one of the fragments
AllTexts ==
    {h \o t : h \in PlainHeads, t \in Tails(MaxFrags)}
        \cup {h \o t : h \in WordHeads, t \in Tails(MaxFrags - 1)}

QueryArguments(text) == [NoArguments EXCEPT !.query = text]
TableArguments(table, schema) ==
    [NoArguments EXCEPT !.table_name = table, !.schema_name = schema]
SchemaArguments(schema) == [NoArguments EXCEPT !.schema_name = schema]

Call(name, arguments) == [name |-> name, arguments |-> arguments]

\* the requests of the sequential specification: every text, one at a time
PipelineCalls == {Call("query_database", QueryArguments(t)) : t \in AllTexts}

\* the requests of the pool specification: the tools that use a connection
PoolCalls ==
    { Call("query_database", QueryArguments(<<"S","E","L","E","C","T"," ","a"," ","F","R","O","M"," ","o","r","d","e","r","s">>)),
      Call("query_database", QueryArguments(<<"D","E","L","E","T","E"," ","F","R","O","M"," ","o","r","d","e","r","s">>)),
      Call("get_table_schema", TableArguments(<<"o","r","d","e","r","s">>, Absent)),
      Call("list_tables", SchemaArguments(Absent)) }

\* the names the catalog tools are called with, in either case
ToolTables == { <<"o","r","d","e","r","s">>, <<"O","r","d","e","r","s">>, <<"p","g","_","t","a","b","l","e","s">> }

ToolSchemas ==
    { Absent, <<"a","p","p">>, <<"p","g","_","c","a","t","a","l","o","g">>, <<"P","G","_","C","A","T","A","L","O","G">> }

\* the requests of the catalog specification: the tools that take no text
ToolCalls ==
    {Call("get_table_schema", TableArguments(t, n)) : t \in ToolTables, n \in ToolSchemas}
        \cup {Call("list_tables", SchemaArguments(n)) : n \in ToolSchemas}
        \cup {Call("get_security_config", NoArguments)}

\* the requests of the termination specification: one for every way a
\* request can end
LiveCalls ==
    { Call("query_database", QueryArguments(<<"S","E","L","E","C","T"," ","1">>)),
      Call("query_database", QueryArguments(<<"D","R","O","P">>)),
      Call("get_table_schema", TableArguments(<<"p","g","_","t","a","b","l","e","s">>, <<"p","g","_","c","a","t","a","l","o","g">>)),
      Call("no_such_tool", NoArguments) }

\* the requests of the concurrent specification: every tool, a few texts
Calls ==
    { Call("query_database", QueryArguments(<<"S","E","L","E","C","T"," ","a"," ","F","R","O","M"," ","o","r","d","e","r","s">>)),
      Call("query_database", QueryArguments(<<"S","E","L","E","C","T"," ","a"," ","F","R","O","M"," ","c","u","s","t","o","m","e","r","s"," ","L","I","M","I","T"," ","3">>)),
      Call("query_database", QueryArguments(<<"D","E","L","E","T","E"," ","F","R","O","M"," ","o","r","d","e","r","s">>)),
      Call("get_table_schema", TableArguments(<<"o","r","d","e","r","s">>, Absent)),
      Call("get_table_schema", TableArguments(<<"p","g","_","t","a","b","l","e","s">>, <<"p","g","_","c","a","t","a","l","o","g">>)),
      Call("list_tables", SchemaArguments(Absent)),
      Call("list_tables", SchemaArguments(<<"p","g","_","c","a","t","a","l","o","g">>)),
      Call("get_security_config", NoArguments),
      Call("no_such_tool", NoArguments) }

Config(allowed, blocked, enabled) ==
    [ALLOWED_TABLES |-> allowed, BLOCKED_SCHEMAS |-> blocked, ENABLE_AUDIT_LOG |-> enabled]

\* the configurations of the sequential specification
PipelineConfigs ==
    { Config({}, {}, FALSE),
      Config({}, {<<"p","g","_","c","a","t","a","l","o","g">>}, TRUE),
      Config({<<"p","u","b","l","i","c",".","o","r","d","e","r","s">>}, {<<"p","g","_","c","a","t","a","l","o","g">>}, TRUE),
      Config({<<"o","r","d","e","r","s">>, <<"a","p","p",".","u","s","e","r","s">>}, {<<"p","g","_","c","a","t","a","l","o","g">>}, TRUE) }

\* the configuration of the pool specification
PoolConfigs == { Config({}, {<<"p","g","_","c","a","t","a","l","o","g">>}, TRUE) }

\* the configurations of the catalog specification
ToolConfigs ==
    { Config({}, {<<"p","g","_","c","a","t","a","l","o","g">>}, TRUE),
      Config({<<"o","r","d","e","r","s">>}, {<<"p","g","_","c","a","t","a","l","o","g">>}, TRUE),
      Config({<<"p","u","b","l","i","c",".","o","r","d","e","r","s">>, <<"a","p","p",".","u","s","e","r","s">>}, {}, TRUE),
      Config({}, {}, TRUE) }

\* the configurations of the concurrent specification
Configs ==
    { Config({}, {<<"p","g","_","c","a","t","a","l","o","g">>}, TRUE),
      Config({<<"p","u","b","l","i","c",".","o","r","d","e","r","s">>}, {}, TRUE) }

\* ------------------------------------------------------------------------
\* Specifications
\* ------------------------------------------------------------------------

InitWith(configs) ==
    /\ SecurityConfig \in configs
    /\ db_pool = 0
    /\ pools = 0
    /\ req = [r \in Reqs |-> IdleFrame]
    /\ held = [r \in Reqs |-> 0]
    /\ audit = [r \in Reqs |-> <<>>]
    /\ sink_ok = TRUE
    /\ others = NoOthers
    /\ stopped = FALSE
    /\ closed = {}

Init == InitWith(Configs)

InitPipeline == InitWith(PipelineConfigs)

InitPool == InitWith(PoolConfigs)

InitTools == InitWith(ToolConfigs)

\* Concurrent requests to every tool.
Next ==
    \E r \in Reqs :
        \/ CallTool(r, Calls)
        \/ CreatePoolDone(r)
        \/ CreatePoolFail(r)
        \/ Acquire(r)
        \/ AcquireFail(r)
        \/ FetchQuery(r)
        \/ FetchTimeout(r)
        \/ FetchSchema(r)
        \/ FetchTables(r)
        \/ FetchError(r)
        \/ Release(r)
        \/ Retire(r)

\* query_database requests over every text, one request at a time.
NextPipeline ==
    \/ CallTool(1, PipelineCalls)
    \/ CreatePoolDone(1)
    \/ CreatePoolFail(1)
    \/ Acquire(1)
    \/ AcquireFail(1)
    \/ FetchQuery(1)
    \/ FetchTimeout(1)
    \/ FetchError(1)
    \/ Release(1)
    \/ Retire(1)

\* Concurrent requests to the tools that use a connection.
NextPool ==
    \E r \in Reqs :
        \/ CallTool(r, PoolCalls)
        \/ CreatePoolDone(r)
        \/ CreatePoolFail(r)
        \/ Acquire(r)
        \/ AcquireFail(r)
        \/ FetchQuery(r)
        \/ FetchTimeout(r)
        \/ FetchSchema(r)
        \/ FetchTables(r)
        \/ FetchError(r)
        \/ Release(r)
        \/ Retire(r)

\* Every tool, one request at a time, with a log sink that fails and recovers.
NextAudit ==
    \/ CallTool(1, Calls)
    \/ CreatePoolDone(1)
    \/ CreatePoolFail(1)
    \/ Acquire(1)
    \/ AcquireFail(1)
    \/ FetchQuery(1)
    \/ FetchTimeout(1)
    \/ FetchSchema(1)
    \/ FetchTables(1)
    \/ FetchError(1)
    \/ Release(1)
    \/ Retire(1)
    \/ SinkFails
    \/ SinkRecovers

\* Concurrent requests next to a crowd of others that share the pool.
NextCrowd ==
    \/ \E r \in Reqs :
          \/ CallTool(r, PoolCalls)
          \/ CreatePoolDone(r)
          \/ CreatePoolFail(r)
          \/ Acquire(r)
          \/ AcquireFail(r)
          \/ FetchQuery(r)
          \/ FetchTimeout(r)
          \/ FetchSchema(r)
          \/ FetchTables(r)
          \/ FetchError(r)
          \/ Release(r)
          \/ Retire(r)
    \/ OtherAcquire
    \/ OtherRelease

\* The catalog tools over names in either case, one request at a time.
NextTools ==
    \/ CallTool(1, ToolCalls)
    \/ CreatePoolDone(1)
    \/ CreatePoolFail(1)
    \/ Acquire(1)
    \/ AcquireFail(1)
    \/ FetchSchema(1)
    \/ FetchTables(1)
    \/ FetchError(1)
    \/ Release(1)
    \/ Retire(1)

\* The life of the process: concurrent requests until main leaves app.run,
\* then cleanup.
NextProcess ==
    \/ \E r \in Reqs :
          \/ CallTool(r, PoolCalls)
          \/ CreatePoolDone(r)
          \/ CreatePoolFail(r)
          \/ Acquire(r)
          \/ AcquireFail(r)
          \/ FetchQuery(r)
          \/ FetchTimeout(r)
          \/ FetchSchema(r)
          \/ FetchTables(r)
          \/ FetchError(r)
          \/ Release(r)
          \/ Retire(r)
    \/ cleanup

\* Concurrent requests, one for every way a request can end.
NextLive ==
    \E r \in Reqs :
        \/ CallTool(r, LiveCalls)
        \/ CreatePoolDone(r)
        \/ CreatePoolFail(r)
        \/ Acquire(r)
        \/ AcquireFail(r)
        \/ FetchQuery(r)
        \/ FetchTimeout(r)
        \/ FetchError(r)
        \/ Release(r)
        \/ Retire(r)

\* The awaited operation of request r finishes and the event loop resumes
\* the coroutine: create_pool returns or raises, pool.acquire() hands out a
\* connection or raises, the database call completes, fails or runs into its
\* deadline, __aexit__ gives the connection back.
Resume(r) ==
    \/ CreatePoolFail(r)
    \/ CreatePoolDone(r)
    \/ Acquire(r)
    \/ AcquireFail(r)
    \/ FetchError(r)
    \/ FetchTimeout(r)
    \/ FetchQuery(r)
    \/ Release(r)

Spec == Init /\ [][Next]_vars

SpecPipeline == InitPipeline /\ [][NextPipeline]_vars

SpecPool == InitPool /\ [][NextPool]_vars

SpecAudit == Init /\ [][NextAudit]_vars

SpecCrowd == InitPool /\ [][NextCrowd]_vars

SpecTools == InitTools /\ [][NextTools]_vars

SpecProcess == InitPool /\ [][NextProcess]_vars

\* No awaited operation stays pending for ever.
SpecLive == InitPool /\ [][NextLive]_vars /\ \A r \in Reqs : WF_vars(Resume(r))


\* ------------------------------------------------------------------------
\* Properties
\* ------------------------------------------------------------------------

IsQuery(r) == req[r].name = "query_database"

\* the request is in the Executor: acquiring, fetching or releasing
InExecutor(r) == req[r].pc \in {"acquire", "fetch", "release"}

\* the read words and write words as the specification lists them
ReadWords == { <<"S","E","L","E","C","T">>, <<"S","H","O","W">>, <<"E","X","P","L","A","I","N">>, <<"D","E","S","C","R","I","B","E">>, <<"W","I","T","H">> }

WriteWords ==
    { <<"I","N","S","E","R","T">>, <<"U","P","D","A","T","E">>, <<"D","E","L","E","T","E">>, <<"D","R","O","P">>, <<"T","R","U","N","C","A","T","E">>, <<"A","L","T","E","R">>,
      <<"C","R","E","A","T","E">>, <<"G","R","A","N","T">>, <<"R","E","V","O","K","E">>, <<"R","E","P","L","A","C","E">>, <<"M","E","R","G","E">> }

StartsWithReadWord(text) ==
    LET trimmed == strip(upper(text))
    IN  \E w \in ReadWords : startswith(trimmed, w)

ContainsWriteWord(text) ==
    LET upper_text == upper(text)
    IN  \E w \in WriteWords : contains(upper_text, w)

\* the references the AccessGuard of request r is given
RefsOf(r) == extract_tables_from_query(req[r].arguments.query)

\* the schema and the table of a reference "schema.table"
SchemaOf(ref) == SubSeq(ref, 1, FirstDot(ref, 1) - 1)
TableOf(ref) == SubSeq(ref, FirstDot(ref, 1) + 1, Len(ref))

HasBlockedRef(refs) == \E t \in refs : SchemaOf(t) \in SecurityConfig.BLOCKED_SCHEMAS

HasUnlistedRef(refs) ==
    /\ SecurityConfig.ALLOWED_TABLES # {}
    /\ \E t \in refs : /\ t \notin SecurityConfig.ALLOWED_TABLES
                       /\ TableOf(t) \notin SecurityConfig.ALLOWED_TABLES

\* the AccessGuard step of request r has run
AccessChecked(r) == IsQuery(r) /\ Len(req[r].steps) >= 2

\* C1: every query text in the Executor has passed the Classifier and then
\* the AccessGuard, both allowing it, and carries a LIMIT clause that bounds
\* the outer result.
C1_ExecutorTextCheckedAndLimited ==
    \A r \in Reqs :
        IsQuery(r) /\ InExecutor(r) =>
            /\ Len(req[r].steps) >= 2
            /\ req[r].steps[1] = Step("classify", TRUE)
            /\ req[r].steps[2] = Step("access", TRUE)
            /\ OuterLimit(req[r].query) >= 0

\* C2: a query text that, trimmed and upper-cased, does not start with a read
\* word is rejected by the Classifier (ValidationRejected) and is never
\* executed.
C2_NonReadTextRejected ==
    \A r \in Reqs :
        IsQuery(r) /\ ~StartsWithReadWord(req[r].arguments.query) =>
            /\ ~validate_read_only_query(req[r].arguments.query).ok
            /\ ~InExecutor(r)
            /\ req[r].db = "none"
            /\ req[r].pc = "done" =>
                  \/ /\ req[r].response.kind = "validation_failed"
                     /\ req[r].response.reason.kind = "not_read_kind"
                     /\ req[r].steps = <<Step("classify", FALSE)>>
                  \/ /\ req[r].response.kind = "error"
                     /\ req[r].response.reason.kind = "create_pool_failed"

\* a text with a read word that is not at its start has been rejected
C2_Witness ==
    \E r \in Reqs :
        /\ IsQuery(r)
        /\ req[r].pc = "done"
        /\ ~StartsWithReadWord(req[r].arguments.query)
        /\ contains(upper(req[r].arguments.query), <<"S","E","L","E","C","T">>)
        /\ req[r].response.kind = "validation_failed"

\* C3: a query text whose upper-cased form contains a write word anywhere,
\* also inside an identifier, is rejected by the Classifier even when it
\* starts with a read word.
C3_WriteWordRejected ==
    \A r \in Reqs :
        IsQuery(r) /\ ContainsWriteWord(req[r].arguments.query) =>
            /\ ~validate_read_only_query(req[r].arguments.query).ok
            /\ ~InExecutor(r)
            /\ req[r].db = "none"
            /\ req[r].pc = "done" =>
                  \/ /\ req[r].response.kind = "validation_failed"
                     /\ req[r].steps = <<Step("classify", FALSE)>>
                  \/ /\ req[r].response.kind = "error"
                     /\ req[r].response.reason.kind = "create_pool_failed"

\* a text that starts with a read word and has a write word inside an
\* identifier after a table reference has been rejected for that word
C3_Witness ==
    \E r \in Reqs :
        /\ IsQuery(r)
        /\ req[r].pc = "done"
        /\ StartsWithReadWord(req[r].arguments.query)
        /\ RefsOf(r) # {}
        /\ contains(upper(req[r].arguments.query), <<"U","P","D","A","T","E","D","_","A","T">>)
        /\ req[r].response.kind = "validation_failed"
        /\ req[r].response.reason.kind = "write_keyword"
        /\ req[r].response.reason.name = <<"U","P","D","A","T","E">>

\* C4: the QueryResult of every accepted query, with or without a LIMIT of
\* its own, has rowCount <= maxRows.
C4_RowCountWithinMaxRows ==
    \A r \in Reqs :
        IsQuery(r) /\ req[r].response.kind = "result" =>
            req[r].response.rowCount <= MAX_ROWS_LIMIT

C6_BlockedSchemaFirst ==
    \A r \in Reqs :
        AccessChecked(r) /\ HasBlockedRef(RefsOf(r)) =>
            /\ ~req[r].steps[2].ok
            /\ req[r].response.kind = "access_denied"
            /\ req[r].response.reason.kind = "schema"
            /\ req[r].response.reason.name \in SecurityConfig.BLOCKED_SCHEMAS

\* one reference is blocked, another one fails the allowlist
C6_Witness ==
    \E r \in Reqs :
        /\ AccessChecked(r)
        /\ HasBlockedRef(RefsOf(r))
        /\ \E t \in RefsOf(r) : /\ SchemaOf(t) \notin SecurityConfig.BLOCKED_SCHEMAS
                                /\ HasUnlistedRef({t})
        /\ req[r].response.reason.kind = "schema"

\* C7: a query whose execution exceeds the timeout ends as TimeoutExceeded
\* and returns no rows; a response has rows only if the rows were all
\* materialized before the deadline.
C7_NoRowsAfterDeadline ==
    \A r \in Reqs :
        IsQuery(r) =>
            /\ req[r].db = "deadline" =>
                  /\ req[r].pending.kind = "timeout"
                  /\ req[r].pending.rowCount = -1
                  /\ req[r].pc = "done" => /\ req[r].response.kind = "timeout"
                                           /\ req[r].response.rowCount = -1
            /\ req[r].response.kind = "result" => req[r].db = "completed"
            /\ req[r].pending.kind = "result" => req[r].db = "completed"

\* a query has run into the deadline and has returned
C7_Witness ==
    \E r \in Reqs :
        /\ IsQuery(r)
        /\ req[r].pc = "done"
        /\ req[r].db = "deadline"
        /\ req[r].response.kind = "timeout"

\* the requests that are between pool.acquire() and the end of __aexit__
Holders(p) == {r \in Reqs : req[r].pc \in {"fetch", "release"} /\ req[r].pool = p}

\* C8: a request that has returned holds no connection, on every exit path,
\* so the connections in use are those of the requests still executing and
\* the pool serves the next request.
C8_ConnectionReleased ==
    /\ \A r \in Reqs : req[r].pc \in {"idle", "create_pool", "acquire", "done"} => held[r] = 0
    /\ \A p \in 1..pools : InUse(p) = Holders(p)

\* a query has timed out or failed and has returned, and the pool it used
\* serves another request that is executing
C8_Witness ==
    \E r, t \in Reqs :
        /\ r # t
        /\ req[r].pc = "done"
        /\ req[r].db \in {"deadline", "failed"}
        /\ req[t].pc = "fetch"
        /\ held[t] = req[r].pool

\* C9: with audit enabled a query_database request logs exactly one
\* AuditEvent over its lifetime, whatever its outcome, and the event's
\* success flag is true exactly when the query was executed successfully.
C9_OneAuditEvent ==
    SecurityConfig.ENABLE_AUDIT_LOG =>
        \A r \in Reqs :
            IsQuery(r) =>
                /\ Len(audit[r]) <= 1
                /\ req[r].pc = "done" =>
                      /\ Len(audit[r]) = 1
                      /\ audit[r][1].success = (req[r].response.kind = "result")

\* a query whose execution failed in the driver has returned an error
C9_Witness ==
    \E r \in Reqs :
        /\ SecurityConfig.ENABLE_AUDIT_LOG
        /\ IsQuery(r)
        /\ req[r].pc = "done"
        /\ req[r].db = "failed"
        /\ req[r].response.kind = "error"
        /\ Len(audit[r]) = 1

\* C10: with audit enabled no operation returns a rejection, denial or error
\* without having logged an AuditEvent with success = false before.
C10_RejectionLogged ==
    SecurityConfig.ENABLE_AUDIT_LOG =>
        \A r \in Reqs :
            /\ req[r].pc = "done"
            /\ req[r].name \in {"query_database", "get_table_schema",
                                "list_tables", "get_security_config"}
            /\ req[r].response.kind \in {"validation_failed", "access_denied",
                                         "timeout", "error"}
            => \E i \in 1..Len(audit[r]) : ~audit[r][i].success

\* the response each audit event type goes with
ResponseKindOf(event_type) ==
    CASE event_type = "QUERY_BLOCKED" -> "validation_failed"
      [] event_type = "ACCESS_DENIED" -> "access_denied"
      [] event_type = "QUERY_TIMEOUT" -> "timeout"
      [] event_type = "QUERY_SUCCESS" -> "result"
      [] event_type = "SCHEMA_QUERY"  -> "schema_info"
      [] event_type = "LIST_TABLES"   -> "tables"
      [] OTHER                        -> "error"

\* C11: recording an AuditEvent never throws, and a record that could not be
\* written leaves the decision as it was: the request logs its one event and
\* returns the response that goes with it, a successful query its
\* QueryResult with the rows it read.
C11_AuditFailureKeepsResponse ==
    \A r \in Reqs :
        req[r].pc = "done" /\ audit[r] # <<>> =>
            /\ Len(audit[r]) = 1
            /\ req[r].response.kind = ResponseKindOf(audit[r][1].event_type)
            /\ req[r].response.reason.kind # "log_write_failed"
            /\ audit[r][1].event_type = "QUERY_SUCCESS" =>
                  /\ req[r].response.rowCount = audit[r][1].rows_returned
                  /\ req[r].response.rowCount = ResultSize(req[r].query)

\* a query has executed while the sink could not be written and has
\* returned its QueryResult
C11_Witness ==
    \E r \in Reqs :
        /\ req[r].pc = "done"
        /\ Len(audit[r]) = 1
        /\ audit[r][1].event_type = "QUERY_SUCCESS"
        /\ ~audit[r][1].written
        /\ req[r].response.kind = "result"

\* request r waits in pool.acquire() while every connection of its pool is
\* acquired by others
Blocked(r) == req[r].pc = "acquire" /\ Acquired(req[r].pool) >= max_size

\* C12: a query_database request that waits for a connection of a pool at
\* its maximum does not depend on the others: its own deadline can end the
\* wait with a timeout or error outcome.
C12_AcquisitionBounded ==
    \A r \in Reqs :
        IsQuery(r) /\ Blocked(r) => ENABLED (Acquire(r) \/ AcquireFail(r))

\* the Classifier or the AccessGuard rejects the text
RejectedText(text) ==
    \/ ~validate_read_only_query(text).ok
    \/ \E d \in validate_table_access(text) : ~d.ok

\* C13: a query_database request whose text the Classifier or the
\* AccessGuard rejects creates no pool, acquires no connection and executes
\* nothing, and returns that rejection whether or not the database can be
\* reached.
C13_RejectionWithoutDatabase ==
    \A r \in Reqs :
        IsQuery(r) /\ RejectedText(req[r].arguments.query) =>
            /\ req[r].pc # "create_pool"
            /\ ~InExecutor(r)
            /\ req[r].db = "none"
            /\ req[r].pc = "done" =>
                  req[r].response.kind \in {"validation_failed", "access_denied"}

\* the reference the AccessGuard is given for a (schema, table) pair
TableRef(schema, table) == lower(qualified(schema, table))

\* the AccessGuard allows the references
GuardAllows(refs) == \A d \in access_decisions(refs) : d.ok

\* request r is past `pool = await get_db_pool()`
Dispatched(r) ==
    /\ req[r].pc \notin {"idle", "create_pool"}
    /\ req[r].response.reason.kind # "create_pool_failed"

\* C14: get_table_schema goes on to its introspection query exactly when
\* the AccessGuard allows the lower-cased reference of its (schema, table)
\* arguments, and answers with a denial exactly when it does not.
C14_SchemaToolSameDecision ==
    \A r \in Reqs :
        req[r].name = "get_table_schema" /\ Dispatched(r) =>
            (req[r].response.kind # "access_denied")
                = GuardAllows({TableRef(schema_name_or_public(req[r]),
                                        req[r].arguments.table_name)})

\* C15: every step of a get_security_config invocation leaves the pool, the
\* connections, the audit log and the configuration as they are, and the
\* invocation returns the configuration whether or not the database can be
\* reached.
C15_SecurityConfigNoSideEffects ==
    [][\A r \in Reqs :
          req'[r].name = "get_security_config" /\ req'[r] # req[r] =>
              /\ UNCHANGED <<SecurityConfig, db_pool, pools, held, audit>>
              /\ req'[r].pc = "done"
              /\ req'[r].response.kind = "config"]_vars

\* request r has just left the rewriting and waits for a connection
Rewritten(r) == IsQuery(r) /\ req[r].pc = "acquire"

LimitWord == <<"L","I","M","I","T">>

\* the clause the rewriting appends
LimitClause == <<" ","L","I","M","I","T"," ">> \o IntToStr(MAX_ROWS_LIMIT)

\* the number of places where sub occurs in s
Occurrences(s, sub) ==
    Cardinality({i \in 1..(Len(s) - Len(sub) + 1) : SubSeq(s, i, i + Len(sub) - 1) = sub})

\* C16: the LIMIT rewriting is idempotent: applied to its own output it
\* changes nothing, so the text that is executed is a fixed point of the
\* rewriting and has no second LIMIT clause injected into it.
C16_EnsureLimitIdempotent ==
    \A r \in Reqs :
        Rewritten(r) =>
            LET text == req[r].arguments.query
            IN  /\ req[r].query = add_limit(text)
                /\ add_limit(req[r].query) = req[r].query
                /\ Occurrences(upper(req[r].query), LimitWord)
                       = IF contains(upper(text), LimitWord)
                         THEN Occurrences(upper(text), LimitWord) ELSE 1

\* a text without LIMIT has been given the clause, once
C16_Witness ==
    \E r \in Reqs :
        /\ Rewritten(r)
        /\ ~contains(upper(req[r].arguments.query), LimitWord)
        /\ req[r].query # req[r].arguments.query
        /\ add_limit(req[r].query) = req[r].query
        /\ Occurrences(upper(req[r].query), LimitWord) = 1

\* the text without its last character when that is a semicolon
StripOneSemicolon(text) ==
    IF Len(text) > 0 /\ text[Len(text)] = ";" THEN SubSeq(text, 1, Len(text) - 1) ELSE text

\* C17 as stated: a text without LIMIT is rewritten to itself less a single
\* trailing ';' followed by ' LIMIT <maxRows>'; a text with LIMIT anywhere
\* is left as it is.
C17_SingleSemicolonStripped ==
    \A r \in Reqs :
        Rewritten(r) =>
            LET text == req[r].arguments.query
            IN  req[r].query = IF contains(upper(text), LimitWord) THEN text
                               ELSE StripOneSemicolon(text) \o LimitClause

\* C17 amended: a text without LIMIT is rewritten to itself less all of its
\* trailing ';' followed by ' LIMIT <maxRows>': the rewritten text ends with
\* the clause, what precedes the clause is a prefix of the text that does
\* not end with ';', and the text has nothing but ';' after that prefix; a
\* text with LIMIT anywhere is left as it is.
C17_AllSemicolonsStripped ==
    \A r \in Reqs :
        Rewritten(r) =>
            LET text  == req[r].arguments.query
                out   == req[r].query
                n     == Len(out) - Len(LimitClause)
            IN  IF contains(upper(text), LimitWord) THEN out = text
                ELSE /\ n >= 0
                     /\ n <= Len(text)
                     /\ SubSeq(out, n + 1, Len(out)) = LimitClause
                     /\ SubSeq(out, 1, n) = SubSeq(text, 1, n)
                     /\ n > 0 => text[n] # ";"
                     /\ \A i \in (n + 1)..Len(text) : text[i] = ";"

\* a text that ends with two semicolons has lost both
C17_Witness ==
    \E r \in Reqs :
        LET text == req[r].arguments.query
            n    == Len(text)
        IN  /\ Rewritten(r)
            /\ n > 2
            /\ text[n] = ";"
            /\ text[n - 1] = ";"
            /\ req[r].query = SubSeq(text, 1, n - 2) \o LimitClause

\* a (schema, table) row passes the filters of the configuration
PassesFilters(t) ==
    /\ t[1] \notin SecurityConfig.BLOCKED_SCHEMAS
    /\ SecurityConfig.ALLOWED_TABLES # {} =>
          \/ qualified(t[1], t[2]) \in SecurityConfig.ALLOWED_TABLES
          \/ t[2] \in SecurityConfig.ALLOWED_TABLES

\* C18: the tables a list_tables request answers with all pass the
\* blocked-schema filter and, when there is an allowlist, the allowlist
\* filter; and under every configuration, an empty set of blocked schemas
\* included, the statement it sends can complete with such a list.
C18_ListTablesFiltered ==
    \A r \in Reqs :
        req[r].name = "list_tables" =>
            /\ \A t \in req[r].response.data \cup req[r].pending.data : PassesFilters(t)
            /\ req[r].pc = "fetch" => ENABLED FetchTables(r)

\* the step has ended request r with an error response that carries the
\* cause, one failure event with the same cause, and no connection
SurfacedAs(r, cause) ==
    /\ req'[r].pc = "done"
    /\ req'[r].response.kind = "error"
    /\ req'[r].response.reason.kind = cause
    /\ req'[r].db = "none"
    /\ held'[r] = 0
    /\ SecurityConfig.ENABLE_AUDIT_LOG =>
          /\ Len(audit'[r]) = 1
          /\ audit'[r][1].event_type = "ERROR"
          /\ ~audit'[r][1].success
          /\ audit'[r][1].error.kind = cause

HeldConnections == Cardinality({r \in Reqs : held[r] # 0}) + others.n

\* C20: under every interleaving the requests together hold at most
\* max_size = 10 connections, and a request that needs one while ten are
\* held waits until one is released.
C20_HeldWithinPoolMaximum ==
    /\ HeldConnections <= max_size
    /\ \A r \in Reqs :
          req[r].pc = "acquire" /\ HeldConnections >= max_size => ~ENABLED Acquire(r)

\* C21: asyncpg.create_pool creates at most one pool in the life of the
\* process, every request works with the pool db_pool names, and when
\* cleanup has closed db_pool no pool that was created is left open.
C21_PoolCreatedOnce ==
    /\ pools <= 1
    /\ \A r \in Reqs : req[r].pool \in {0, db_pool}
    /\ stopped => \A p \in 1..pools : p \in closed

\* the ways a request can end
TerminalKinds ==
    {"validation_failed", "access_denied", "timeout", "result", "schema_info",
     "tables", "config", "error", "unknown_tool"}

\* request r has returned its response
Returned(r) == req[r].pc = "done" /\ req[r].response.kind \in TerminalKinds

\* C22: every call_tool request that has started eventually returns one
\* response of a terminal kind, given that every awaited operation ends and
\* every connection is given back; until then it has returned nothing, and
\* no exception leaves the handler.
C22_EveryRequestReturns ==
    /\ [](\A r \in Reqs : /\ req[r].pc \in {"idle", "create_pool", "acquire", "fetch", "release", "done"}
                           /\ req[r].pc # "done" => req[r].response = NoResponse)
    /\ \A r \in Reqs : (req[r].pc # "idle") ~> Returned(r)

\* a request has run into its deadline and has returned, next to one that
\* has ended in the except clause
C22_Witness ==
    \E r, t \in Reqs :
        /\ Returned(r)
        /\ req[r].response.kind = "timeout"
        /\ Returned(t)
        /\ req[t].response.kind = "error"

====
